---------------------------- MODULE Spec2Model ----------------------------
(***************************************************************************)
(* Model of service.js: the yekrial.com -> Google Sheets bridge.           *)
(*                                                                         *)
(* The state is the module-level state of service.js (lastRun,             *)
(* lastFetchMs, isRunning), the worksheet the service writes to, the wall  *)
(* clock, and for every runOnce invocation in flight (called by the cron   *)
(* job or by GET /run) the await it is parked at.  Node runs one callback  *)
(* at a time, so an action is the code between two awaits on external I/O: *)
(* the synchronous prefix of a call, or the continuation that runs when an *)
(* awaited promise of Playwright / google-spreadsheet settles, together    *)
(* with every microtask continuation it triggers (the caller's own         *)
(* continuation after "await runOnce(...)" among them).                    *)
(*                                                                         *)
(* Abstractions.  Strings the code inspects character by character (the    *)
(* symbol, the price text) are sequences of one-character strings.  The    *)
(* regular expressions of page.evaluate are applied by the browser: a card *)
(* is given by what they capture (hrefToken, priceText), NoMatch when they *)
(* do not match.  Price texts are digits and commas (no decimal part).     *)
(* Row fields no property depends on (name_fa, change, low, high, ts,      *)
(* source) are left out of the rows.  The worksheet is written by this     *)
(* service only; sheet.clear() removes the data rows.                      *)
(***************************************************************************)
EXTENDS Integers, Sequences, FiniteSets, TLC

\* ------------------------------------------------------------------------
\* Bounds of the model
\* ------------------------------------------------------------------------
\* most cards in one document
MaxCards == 2
\* most readings of the clock that find it advanced, in one behaviour
MaxTicks == 2
\* most runOnce calls in one behaviour
MaxCalls == 3
\* most runOnce invocations in flight (parked at an await) at a time
MaxInFlight == 2
\* Date.now() when the process starts
StartMs == 100000
\* most runOnce calls in one behaviour of LiveSpec
MaxLiveCalls == 2
\* most cards in one document of ExtractSpec
MaxListed == 4

\* ------------------------------------------------------------------------
\* Config
\* ------------------------------------------------------------------------
CACHE_TTL_MS == 60000

\* between two readings of the clock it advances by one of these steps (ms):
\* half of CACHE_TTL_MS, so that two steps land on the end of the window
TickSteps == {30000}

\* the runOnce invocations that can be in flight at a time
Procs == 1..MaxInFlight

\* JS null
Null == "<null>"
\* the result of a String.prototype.match that found nothing
NoMatch == <<>>

\* process.env as loadServiceAccountFromEnv / getSheet see it, and whether
\* the document has a worksheet at all
Envs ==
    { [SHEET_ID |-> TRUE,  SA |-> "valid",    worksheet |-> TRUE],
      [SHEET_ID |-> TRUE,  SA |-> "valid",    worksheet |-> FALSE],
      [SHEET_ID |-> FALSE, SA |-> "valid",    worksheet |-> TRUE],
      [SHEET_ID |-> TRUE,  SA |-> "missing",  worksheet |-> TRUE],
      [SHEET_ID |-> TRUE,  SA |-> "notjson",  worksheet |-> TRUE],
      [SHEET_ID |-> TRUE,  SA |-> "nofields", worksheet |-> TRUE] }

\* ------------------------------------------------------------------------
\* Helpers
\* ------------------------------------------------------------------------
LowerChars == << "a","b","c","d","e","f","g","h","i","j","k","l","m",
                 "n","o","p","q","r","s","t","u","v","w","x","y","z" >>
UpperChars == << "A","B","C","D","E","F","G","H","I","J","K","L","M",
                 "N","O","P","Q","R","S","T","U","V","W","X","Y","Z" >>
DigitChars == << "0","1","2","3","4","5","6","7","8","9" >>

IndexIn(c, s) == IF \E i \in 1..Len(s) : s[i] = c
                 THEN CHOOSE i \in 1..Len(s) : s[i] = c
                 ELSE 0

ToUpperChar(c) == IF IndexIn(c, LowerChars) > 0
                  THEN UpperChars[IndexIn(c, LowerChars)] ELSE c
ToLowerChar(c) == IF IndexIn(c, UpperChars) > 0
                  THEN LowerChars[IndexIn(c, UpperChars)] ELSE c

toUpperCase(s) == [i \in 1..Len(s) |-> ToUpperChar(s[i])]
toLowerCase(s) == [i \in 1..Len(s) |-> ToLowerChar(s[i])]

\* new Date().toISOString() at clock value t
toISOString(t) == ToString(t)

\* String(v).replace(/,/g, "")
NotComma(c) == c # ","
StripCommas(s) == SelectSeq(s, NotComma)

\* Number(s) of a digit string: a double is finite up to about 1.8e308, so
\* a string of more than 309 digits converts to Infinity.  The value is
\* computed for the strings that fit the model's integers.
MaxFiniteDigits == 309

RECURSIVE DigitsValue(_)
DigitsValue(s) ==
    IF s = <<>> THEN 0
    ELSE 10 * DigitsValue(SubSeq(s, 1, Len(s) - 1))
         + (IndexIn(s[Len(s)], DigitChars) - 1)

IsDigits(s) == \A i \in 1..Len(s) : IndexIn(s[i], DigitChars) > 0

\* a number or null: <<n>> for the number n, NullNum for null
NullNum == <<>>

\* num(v): null for null/undefined, for the empty string, and for what
\* Number() turns into NaN or Infinity
num(v) ==
    IF v = NoMatch THEN NullNum
    ELSE LET s == StripCommas(v)
         IN IF s = <<>> THEN NullNum
            ELSE IF ~IsDigits(s) THEN NullNum
            ELSE IF Len(s) > MaxFiniteDigits THEN NullNum
            ELSE <<DigitsValue(s)>>

\* Symbol classification
CRYPTO_SYMBOLS ==
    { <<"B","T","C">>, <<"E","T","H">>, <<"U","S","D","T">>, <<"B","N","B">>,
      <<"X","R","P">>, <<"A","D","A">>, <<"D","O","G","E">>, <<"S","O","L">>,
      <<"D","O","T">>, <<"T","R","X">>, <<"L","T","C">>, <<"B","C","H">>,
      <<"T","O","N">>, <<"A","V","A","X">>, <<"L","I","N","K">>,
      <<"M","A","T","I","C">>, <<"S","H","I","B">>, <<"A","T","O","M">>,
      <<"E","T","C">>, <<"X","L","M">>, <<"E","O","S">>, <<"X","A","U","T">> }

METAL_SYMBOLS ==
    { <<"X","A","U">>, <<"X","A","G">>, <<"G","O","L","D">>,
      <<"S","I","L","V","E","R">> }

\* ------------------------------------------------------------------------
\* YekRial scraper: the pure part of fetchYekRialRows
\* ------------------------------------------------------------------------
\* error messages of service.js
ErrNoCards == "No currency cards found using selector: a.currency-card-link"
ErrNoValidRows == "Cards found, but no valid rows parsed (price/symbol issue)"
ErrNoSheetId == "Missing SHEET_ID in env"
ErrNoServiceAccount == "Missing GOOGLE_SERVICE_ACCOUNT_JSON_BASE64 in env"
ErrBadJson == "Decoded service account JSON is invalid"
ErrNoFields == "Service account JSON missing client_email/private_key"
ErrNoWorksheet == "Worksheet not found"

\* the a.currency-card-link elements a document can hold: what the href
\* regex captures and what the price regex matches in the card's text
Chars(n, c) == [i \in 1..n |-> c]

CardSet ==
    { [hrefToken |-> <<"U","S","D">>, priceText |-> <<"1","6","6",",","3","4","0">>],
      [hrefToken |-> <<"b","t","c">>, priceText |-> <<"9">>],
      [hrefToken |-> NoMatch,         priceText |-> <<"1">>],
      [hrefToken |-> <<"g","b","p">>, priceText |-> NoMatch],
      [hrefToken |-> <<"j","p","y">>, priceText |-> Chars(MaxFiniteDigits + 1, "9")] }

RECURSIVE SeqsUpTo(_, _)
SeqsUpTo(S, n) ==
    IF n = 0 THEN { <<>> }
    ELSE LET shorter == SeqsUpTo(S, n - 1)
         IN shorter \cup { Append(s, x) : s \in shorter, x \in S }

\* the documents the page can render
Documents == SeqsUpTo(CardSet, MaxCards)

\* cards of a page that lists a symbol twice (in upper and in lower case,
\* with a price of its own each time, once with a price beyond the doubles)
\* and symbols of the three groups
ListedCards ==
    { [hrefToken |-> <<"U","S","D">>, priceText |-> <<"1","6","6",",","3","4","0">>],
      [hrefToken |-> <<"u","s","d">>, priceText |-> <<"5">>],
      [hrefToken |-> <<"U","s","d">>, priceText |-> Chars(MaxFiniteDigits + 1, "9")],
      [hrefToken |-> <<"e","u","r">>, priceText |-> <<"7">>],
      [hrefToken |-> <<"x","a","u">>, priceText |-> <<"8">>],
      [hrefToken |-> <<"b","t","c">>, priceText |-> <<"9">>] }

\* the documents of such a page
ListedDocuments == SeqsUpTo(ListedCards, MaxListed)

\* cards.forEach(...): one result per card that has an href with a symbol
\* and a text with a price
RECURSIVE ParseCards(_)
ParseCards(cards) ==
    IF cards = <<>> THEN <<>>
    ELSE LET card == Head(cards)
             rest == ParseCards(Tail(cards))
         IN IF card.hrefToken = NoMatch THEN rest
            ELSE IF card.priceText = NoMatch THEN rest
            ELSE << [symbol    |-> toUpperCase(card.hrefToken),
                     priceText |-> card.priceText] >> \o rest

\* variant of the filter: every result is kept
DedupFrom_KeepAll(results, seen) == results

\* results.filter(...) with the seen set: de-dup by symbol, keep first
RECURSIVE DedupFrom(_, _)
DedupFrom(results, seen) ==
    IF results = <<>> THEN <<>>
    ELSE LET r == Head(results)
         IN IF r.symbol \in seen THEN DedupFrom(Tail(results), seen)
            ELSE <<r>> \o DedupFrom(Tail(results), seen \cup {r.symbol})

\* the callback of page.evaluate
EvaluateCards(cards) == DedupFrom(ParseCards(cards), {})

\* the callback of extracted.map: a row, or NoMatch (null) when dropped
ToRow(x) ==
    LET symbol == toUpperCase(x.symbol)
        price  == num(x.priceText)
    IN IF symbol = <<>> \/ price = NullNum THEN NoMatch
       ELSE [group |-> IF symbol \in CRYPTO_SYMBOLS THEN "crypto"
                       ELSE IF symbol \in METAL_SYMBOLS THEN "metal"
                       ELSE "fiat",
             code  |-> toLowerCase(symbol),
             price |-> price[1]]

\* extracted.map(...).filter(Boolean)
RECURSIVE MapRows(_)
MapRows(extracted) ==
    IF extracted = <<>> THEN <<>>
    ELSE LET row == ToRow(Head(extracted))
         IN IF row = NoMatch THEN MapRows(Tail(extracted))
            ELSE <<row>> \o MapRows(Tail(extracted))

groupOrder(g) ==
    IF g = "fiat" THEN 1
    ELSE IF g = "metal" THEN 2
    ELSE IF g = "crypto" THEN 3
    ELSE 9

\* a.localeCompare(b) for lowercase codes: digits sort before letters
CollationChars == DigitChars \o LowerChars

RECURSIVE localeCompare(_, _)
localeCompare(a, b) ==
    IF a = <<>> /\ b = <<>> THEN 0
    ELSE IF a = <<>> THEN -1
    ELSE IF b = <<>> THEN 1
    ELSE LET x == IndexIn(Head(a), CollationChars)
             y == IndexIn(Head(b), CollationChars)
         IN IF x < y THEN -1
            ELSE IF x > y THEN 1
            ELSE localeCompare(Tail(a), Tail(b))

\* the comparator of rows.sort
CompareRows(a, b) ==
    LET d == groupOrder(a.group) - groupOrder(b.group)
    IN IF d # 0 THEN d ELSE localeCompare(a.code, b.code)

\* Array.prototype.sort is stable: insertion after the last element that
\* does not compare greater
RECURSIVE InsertRow(_, _)
InsertRow(sorted, r) ==
    IF sorted = <<>> THEN <<r>>
    ELSE IF CompareRows(Head(sorted), r) <= 0
         THEN <<Head(sorted)>> \o InsertRow(Tail(sorted), r)
         ELSE <<r>> \o sorted

\* variant of the sort: the rows stay in document order
SortRows_DocumentOrder(rows) == rows

RECURSIVE SortRows(_)
SortRows(rows) ==
    IF rows = <<>> THEN <<>>
    ELSE InsertRow(SortRows(SubSeq(rows, 1, Len(rows) - 1)), rows[Len(rows)])

\* variant of the try block: no check that rows were parsed
TryBlock_NoRowsCheck(extracted) ==
    IF Len(extracted) = 0
    THEN [kind |-> "throw", message |-> ErrNoCards, rows |-> <<>>]
    ELSE [kind |-> "return", message |-> "", rows |-> SortRows(MapRows(extracted))]

\* what the try block of fetchYekRialRows makes of the evaluate result:
\* the rows it returns, or the error it throws
TryBlock(extracted) ==
    IF Len(extracted) = 0
    THEN [kind |-> "throw", message |-> ErrNoCards, rows |-> <<>>]
    ELSE LET rows == MapRows(extracted)
         IN IF Len(rows) = 0
            THEN [kind |-> "throw", message |-> ErrNoValidRows, rows |-> <<>>]
            ELSE [kind |-> "return", message |-> "", rows |-> SortRows(rows)]

\* history: what the document held, whatever the try block makes of it
Held(cards) ==
    IF Len(cards) = 0 THEN "no cards"
    ELSE IF \A i \in 1..Len(cards) :
                cards[i].hrefToken = NoMatch \/ cards[i].priceText = NoMatch
    THEN "no candidates"
    ELSE IF \A i \in 1..Len(cards) :
                cards[i].hrefToken # NoMatch /\ cards[i].priceText # NoMatch
                    => num(cards[i].priceText) = NullNum
    THEN "none valid"
    ELSE "rows"

\* the same for every document of Documents, as a table
OutcomeOfDocument == [cards \in Documents |-> TryBlock(EvaluateCards(cards))]
FetchOutcome(cards) ==
    IF cards \in Documents THEN OutcomeOfDocument[cards]
    ELSE TryBlock(EvaluateCards(cards))

HeldByDocument == [cards \in Documents |-> Held(cards)]
Discovery(cards) ==
    IF cards \in Documents THEN HeldByDocument[cards] ELSE Held(cards)

\* one document for each way the try block can go: every document of
\* Documents goes as one of these does
SameEvaluation(c, d) ==
    FetchOutcome(c) = FetchOutcome(d) /\ Discovery(c) = Discovery(d)
DistinctDocuments ==
    { CHOOSE d \in Documents : SameEvaluation(c, d) : c \in Documents }

\* ------------------------------------------------------------------------
\* State
\* ------------------------------------------------------------------------
VARIABLES
    env,          \* process.env and the document, fixed when the process starts
    now,          \* Date.now() as last read
    ticks,        \* how many readings found the clock advanced
    calls,        \* how often runOnce has been called
    lastRun,      \* let lastRun
    lastFetchMs,  \* let lastFetchMs
    isRunning,    \* let isRunning
    sheet,        \* the worksheet: its header row and its data rows
    pc,           \* per invocation: the await it is parked at
    force,        \* per invocation: the argument of runOnce
    browserOpen,  \* per invocation: a browser launched, close() not settled
    pageOpen,     \* per invocation: a page opened, close() not settled
    outcome,      \* per invocation: what fetchYekRialRows returns or throws
    finalRows,    \* per invocation: finalRows of writeRowsToSheet
    updated_at,   \* per invocation: updated_at of writeRowsToSheet
    trace,        \* history, per invocation: the stages it reached, the
                  \* cards page.evaluate found and what they held
    delivered,    \* history: the runOnce call that settled last, as its
                  \* caller (GET /run, the cron callback) sees it
    busySeen,     \* history: what the callers bounced by the run in
                  \* progress were handed, in order
    lastAttempt,  \* history: how the attempt that finished last ended
    pub           \* history: the latest call of writeRowsToSheet

clock == << now, ticks >>
runState == << lastRun, lastFetchMs, isRunning >>
locals == << pc, force, browserOpen, pageOpen, outcome, finalRows,
             updated_at, trace >>
history == << delivered, busySeen, lastAttempt, pub >>

vars == << env, now, ticks, calls, lastRun, lastFetchMs, isRunning, sheet, pc,
           force, browserOpen, pageOpen, outcome, finalRows,
           updated_at, trace, delivered, busySeen, lastAttempt, pub >>

\* the awaits of fetchYekRialRows and of writeRowsToSheet
FetchPcs == {"launch", "newPage", "goto", "waitForTimeout", "evaluate",
             "pageClose", "browserClose"}
SinkPcs == {"loadInfo", "loadHeaderRow", "setHeaderRow", "reloadHeaderRow",
            "clear", "addRows"}

\* what the awaited calls of Playwright and of google-spreadsheet reject
\* with; NoMessage is a rejection whose value carries no message
NoMessage == ""
RenderErrors == {"Timeout 20000ms exceeded"}
SinkErrors == {"Request failed with status code 429", NoMessage}

NotRunYet == [ok |-> FALSE, error |-> "Not run yet", updated_at |-> Null, count |-> 0]

NoOutcome == [kind |-> "none", message |-> "", rows |-> <<>>]
NoTrace == [extract |-> "none", sink |-> FALSE, found |-> "none", cards |-> <<>>]
NoDelivery == [force |-> FALSE, path |-> "none", kind |-> "none",
               value |-> Null, extract |-> "none", sink |-> FALSE,
               found |-> "none", browserOpen |-> FALSE, pageOpen |-> FALSE]
NoPub == [state |-> "none", before |-> <<>>, rows |-> <<>>,
          ok |-> FALSE, repeat |-> FALSE]

\* what a worksheet can hold when the process starts
LegacyRow == [group |-> "fiat", code |-> <<"o","l","d">>, price |-> 1,
              updated_at |-> toISOString(0)]
InitialSheets ==
    { [header |-> FALSE, rows |-> <<>>],
      [header |-> TRUE,  rows |-> <<LegacyRow>>] }

\* what getSheet throws before its first await, Null when it gets as far as
\* doc.loadInfo()
GetSheetError ==
    IF ~env.SHEET_ID THEN ErrNoSheetId
    ELSE IF env.SA = "missing" THEN ErrNoServiceAccount
    ELSE IF env.SA = "notjson" THEN ErrBadJson
    ELSE IF env.SA = "nofields" THEN ErrNoFields
    ELSE Null

Init ==
    /\ env \in Envs
    /\ now = StartMs
    /\ ticks = 0
    /\ calls = 0
    /\ lastRun = NotRunYet
    /\ lastFetchMs = 0
    /\ isRunning = FALSE
    /\ sheet \in IF GetSheetError = Null /\ env.worksheet
                 THEN InitialSheets ELSE {[header |-> FALSE, rows |-> <<>>]}
    /\ pc = [p \in Procs |-> "idle"]
    /\ force = [p \in Procs |-> FALSE]
    /\ browserOpen = [p \in Procs |-> FALSE]
    /\ pageOpen = [p \in Procs |-> FALSE]
    /\ outcome = [p \in Procs |-> NoOutcome]
    /\ finalRows = [p \in Procs |-> <<>>]
    /\ updated_at = [p \in Procs |-> Null]
    /\ trace = [p \in Procs |-> NoTrace]
    /\ delivered = NoDelivery
    /\ busySeen = <<>>
    /\ lastAttempt = [kind |-> "none"]
    /\ pub = NoPub

\* ------------------------------------------------------------------------
\* Runner + cache
\* ------------------------------------------------------------------------
\* nowMs() / new Date(): the clock is read and has advanced by d since it
\* was last read
Elapsed == {0} \cup TickSteps

ReadClock(d) ==
    /\ d \in Elapsed
    /\ d > 0 => ticks < MaxTicks
    /\ now' = now + d
    /\ ticks' = IF d > 0 THEN ticks + 1 ELSE ticks

\* e?.message || "unknown"
ErrMessage(e) == IF e.message = "" THEN "unknown" ELSE e.message

\* variants of the cache check: a window half as long, force not consulted
CacheFresh_HalfWindow(f, age) == ~f /\ lastRun.ok /\ age * 2 < CACHE_TTL_MS
CacheFresh_IgnoreForce(f, age) == lastRun.ok /\ age < CACHE_TTL_MS

\* variant of the cache check: a fresh fetch is enough, ok or not
CacheFresh_IgnoreStatus(f, age) == ~f /\ age < CACHE_TTL_MS

\* !force && lastRun.ok && age < CACHE_TTL_MS
CacheFresh(f, age) == ~f /\ lastRun.ok /\ age < CACHE_TTL_MS

\* variant of the guard: never taken
RunInProgress_Never == FALSE

\* if (isRunning)
RunInProgress == isRunning

\* variant of the success record: the count is not written
StatusOnSuccess_StaleCount(result) ==
    [ok |-> TRUE, error |-> Null, updated_at |-> result.updated_at,
     count |-> lastRun.count]

\* lastRun = { ok: true, ... } of the try block
StatusOnSuccess(result) ==
    [ok |-> TRUE, error |-> Null, updated_at |-> result.updated_at,
     count |-> result.count]

\* variant of the failure record: only ok and error are written
StatusOnFailure_KeepRest(e) ==
    [lastRun EXCEPT !.ok = FALSE, !.error = ErrMessage(e)]

\* variant of the failure record: updated_at is left as it was
StatusOnFailure_KeepStamp(e) ==
    [ok |-> FALSE, error |-> ErrMessage(e), updated_at |-> lastRun.updated_at,
     count |-> 0]

\* lastRun = { ok: false, ... } of the catch block
StatusOnFailure(e) ==
    [ok |-> FALSE, error |-> ErrMessage(e), updated_at |-> Null, count |-> 0]

\* variant of the early return: taken inside the try block, so that the
\* finally block runs
ReturnLastRun_InsideTry(p, f, path) ==
    /\ delivered' = [force |-> f, path |-> path, kind |-> "return",
                     value |-> lastRun, extract |-> "none", sink |-> FALSE,
                     found |-> "none", browserOpen |-> FALSE, pageOpen |-> FALSE]
    /\ busySeen' = IF path = "busy" THEN Append(busySeen, lastRun)
                   ELSE busySeen
    /\ isRunning' = FALSE
    /\ UNCHANGED << lastRun, lastFetchMs, locals, lastAttempt >>

\* return lastRun, before the try block: the caller has its answer in the
\* same turn of the event loop
ReturnLastRun(p, f, path) ==
    /\ delivered' = [force |-> f, path |-> path, kind |-> "return",
                     value |-> lastRun, extract |-> "none", sink |-> FALSE,
                     found |-> "none", browserOpen |-> FALSE, pageOpen |-> FALSE]
    /\ busySeen' = IF path = "busy" THEN Append(busySeen, lastRun)
                   ELSE busySeen
    /\ UNCHANGED << runState, locals, lastAttempt >>

\* variant of the finally block: the flag is cleared at the end of the try
\* block only, so a failed invocation leaves it set
Finish_FlagKeptOnThrow(p, kind, value, tr, bo, po) ==
    /\ isRunning' = (kind = "throw")
    /\ delivered' = [force |-> force[p], path |-> "run", kind |-> kind,
                     value |-> value, extract |-> tr.extract, sink |-> tr.sink,
                     found |-> tr.found, browserOpen |-> bo, pageOpen |-> po]
    /\ busySeen' = <<>>
    /\ pc' = [pc EXCEPT ![p] = "idle"]
    /\ force' = [force EXCEPT ![p] = FALSE]
    /\ browserOpen' = [browserOpen EXCEPT ![p] = FALSE]
    /\ pageOpen' = [pageOpen EXCEPT ![p] = FALSE]
    /\ outcome' = [outcome EXCEPT ![p] = NoOutcome]
    /\ finalRows' = [finalRows EXCEPT ![p] = <<>>]
    /\ updated_at' = [updated_at EXCEPT ![p] = Null]
    /\ trace' = [trace EXCEPT ![p] = NoTrace]

\* the finally block of runOnce, and the invocation settles: tr, bo and po
\* are its trace and its browser and page as the invocation leaves them
Finish(p, kind, value, tr, bo, po) ==
    /\ isRunning' = FALSE
    /\ delivered' = [force |-> force[p], path |-> "run", kind |-> kind,
                     value |-> value, extract |-> tr.extract, sink |-> tr.sink,
                     found |-> tr.found, browserOpen |-> bo, pageOpen |-> po]
    /\ busySeen' = <<>>
    /\ pc' = [pc EXCEPT ![p] = "idle"]
    /\ force' = [force EXCEPT ![p] = FALSE]
    /\ browserOpen' = [browserOpen EXCEPT ![p] = FALSE]
    /\ pageOpen' = [pageOpen EXCEPT ![p] = FALSE]
    /\ outcome' = [outcome EXCEPT ![p] = NoOutcome]
    /\ finalRows' = [finalRows EXCEPT ![p] = <<>>]
    /\ updated_at' = [updated_at EXCEPT ![p] = Null]
    /\ trace' = [trace EXCEPT ![p] = NoTrace]

\* the catch block of runOnce: record, rethrow
Catch(p, e, tr, bo, po) ==
    /\ lastRun' = StatusOnFailure(e)
    /\ UNCHANGED lastFetchMs
    /\ lastAttempt' = [kind |-> "throw", value |-> e]
    /\ Finish(p, "throw", e, tr, bo, po)

\* the end of the try block of runOnce: record, return lastRun
Succeed(p, result, tr, bo, po) ==
    /\ lastRun' = StatusOnSuccess(result)
    /\ lastFetchMs' = now'
    /\ lastAttempt' = [kind |-> "return", value |-> result]
    /\ Finish(p, "return", lastRun', tr, bo, po)

\* runOnce(force) up to its first await: the cache check, the single-flight
\* guard, isRunning = true, and chromium.launch() is under way.  The
\* invocation is the first one not in flight.
RunOnce(p, f, d) ==
    /\ pc[p] = "idle"
    /\ \A q \in Procs : q < p => pc[q] # "idle"
    /\ calls < MaxCalls
    /\ calls' = calls + 1
    /\ ReadClock(d)
    /\ IF CacheFresh(f, now' - lastFetchMs)
       THEN ReturnLastRun(p, f, "cache")
       ELSE IF RunInProgress
       THEN ReturnLastRun(p, f, "busy")
       ELSE /\ isRunning' = TRUE
            /\ pc' = [pc EXCEPT ![p] = "launch"]
            /\ force' = [force EXCEPT ![p] = f]
            /\ trace' = [trace EXCEPT ![p] = [extract |-> "started", sink |-> FALSE,
                                              found |-> "none", cards |-> <<>>]]
            /\ busySeen' = <<>>
            /\ UNCHANGED << lastRun, lastFetchMs, browserOpen, pageOpen, outcome,
                            finalRows, updated_at, delivered, lastAttempt >>
    /\ UNCHANGED << env, sheet, pub >>

\* ------------------------------------------------------------------------
\* Google Sheets auth + write
\* ------------------------------------------------------------------------
\* writeRowsToSheet(rows) is called
BeginPub(rows) ==
    [state |-> "active", before |-> sheet.rows, rows |-> rows, ok |-> FALSE,
     repeat |-> (pub.ok /\ pub.rows = rows)]

\* variant of the stamp: only the first row gets the timestamp
Stamp_FirstRowOnly(rows, at) ==
    [i \in 1..Len(rows) |->
        [group |-> rows[i].group, code |-> rows[i].code,
         price |-> rows[i].price, updated_at |-> IF i = 1 THEN at ELSE Null]]

\* rows.map((r) => ({ ...r, updated_at }))
Stamp(rows, at) ==
    [i \in 1..Len(rows) |->
        [group |-> rows[i].group, code |-> rows[i].code,
         price |-> rows[i].price, updated_at |-> at]]

\* variant of the continuation: a failed extraction is published as no rows
AfterFetch_PublishAnyway(p, oc, bo, po) ==
    IF GetSheetError # Null
    THEN /\ Catch(p, [message |-> GetSheetError],
                  [trace[p] EXCEPT !.extract = "ok"], bo, po)
         /\ pub' = [BeginPub(oc.rows) EXCEPT !.state = "ended"]
    ELSE /\ pc' = [pc EXCEPT ![p] = "loadInfo"]
         /\ trace' = [trace EXCEPT ![p].extract = IF oc.kind = "throw" THEN "failed"
                                                  ELSE "ok",
                                   ![p].sink = TRUE]
         /\ browserOpen' = [browserOpen EXCEPT ![p] = bo]
         /\ pageOpen' = [pageOpen EXCEPT ![p] = po]
         /\ pub' = BeginPub(oc.rows)
         /\ UNCHANGED << runState, force, outcome, finalRows, updated_at,
                         delivered, busySeen, lastAttempt >>

\* runOnce resumes with what fetchYekRialRows settled with: the catch block
\* when it threw, else writeRowsToSheet(rows) up to its first await
AfterFetch(p, oc, bo, po) ==
    IF oc.kind = "throw"
    THEN /\ Catch(p, [message |-> oc.message],
                  [trace[p] EXCEPT !.extract = "failed"], bo, po)
         /\ UNCHANGED pub
    ELSE IF GetSheetError # Null
    THEN /\ Catch(p, [message |-> GetSheetError],
                  [trace[p] EXCEPT !.extract = "ok"], bo, po)
         /\ pub' = [BeginPub(oc.rows) EXCEPT !.state = "ended"]
    ELSE /\ pc' = [pc EXCEPT ![p] = "loadInfo"]
         /\ trace' = [trace EXCEPT ![p].extract = "ok", ![p].sink = TRUE]
         /\ browserOpen' = [browserOpen EXCEPT ![p] = bo]
         /\ pageOpen' = [pageOpen EXCEPT ![p] = po]
         /\ pub' = BeginPub(oc.rows)
         /\ UNCHANGED << runState, force, outcome, finalRows, updated_at,
                         delivered, busySeen, lastAttempt >>

\* ------------------------------------------------------------------------
\* YekRial scraper: the awaits of fetchYekRialRows
\* ------------------------------------------------------------------------
\* chromium.launch() resolves
LaunchOk(p) ==
    /\ pc[p] = "launch"
    /\ pc' = [pc EXCEPT ![p] = "newPage"]
    /\ browserOpen' = [browserOpen EXCEPT ![p] = TRUE]
    /\ UNCHANGED << env, clock, calls, runState, sheet, force, pageOpen,
                    outcome, finalRows, updated_at, trace, history >>

\* chromium.launch() rejects: outside the try block of fetchYekRialRows
LaunchFail(p, e) ==
    /\ pc[p] = "launch"
    /\ AfterFetch(p, [kind |-> "throw", message |-> e.message, rows |-> <<>>],
                  browserOpen[p], pageOpen[p])
    /\ UNCHANGED << env, clock, calls, sheet >>

\* browser.newPage() resolves
NewPageOk(p) ==
    /\ pc[p] = "newPage"
    /\ pc' = [pc EXCEPT ![p] = "goto"]
    /\ pageOpen' = [pageOpen EXCEPT ![p] = TRUE]
    /\ UNCHANGED << env, clock, calls, runState, sheet, force, browserOpen,
                    outcome, finalRows, updated_at, trace, history >>

\* browser.newPage() rejects: outside the try block, the browser stays open
NewPageFail(p, e) ==
    /\ pc[p] = "newPage"
    /\ AfterFetch(p, [kind |-> "throw", message |-> e.message, rows |-> <<>>],
                  browserOpen[p], pageOpen[p])
    /\ UNCHANGED << env, clock, calls, sheet >>

\* page.goto() resolves
GotoOk(p) ==
    /\ pc[p] = "goto"
    /\ pc' = [pc EXCEPT ![p] = "waitForTimeout"]
    /\ UNCHANGED << env, clock, calls, runState, sheet, force, browserOpen,
                    pageOpen, outcome, finalRows, updated_at, trace, history >>

\* page.waitForTimeout() resolves
WaitForTimeoutOk(p) ==
    /\ pc[p] = "waitForTimeout"
    /\ pc' = [pc EXCEPT ![p] = "evaluate"]
    /\ UNCHANGED << env, clock, calls, runState, sheet, force, browserOpen,
                    pageOpen, outcome, finalRows, updated_at, trace, history >>

\* an await inside the try block rejects (the navigation timeout among
\* them): the finally block starts with the error pending
TryReject(p, e) ==
    /\ pc[p] \in {"goto", "waitForTimeout", "evaluate"}
    /\ outcome' = [outcome EXCEPT ![p] = [kind |-> "throw", message |-> e.message,
                                          rows |-> <<>>]]
    /\ pc' = [pc EXCEPT ![p] = "pageClose"]
    /\ UNCHANGED << env, clock, calls, runState, sheet, force, browserOpen,
                    pageOpen, finalRows, updated_at, trace, history >>

\* page.evaluate() resolves with the cards of the rendered document; the
\* rest of the try block runs, then the finally block starts
Evaluate(p, cards) ==
    /\ pc[p] = "evaluate"
    /\ outcome' = [outcome EXCEPT ![p] = FetchOutcome(cards)]
    /\ pc' = [pc EXCEPT ![p] = "pageClose"]
    /\ trace' = [trace EXCEPT ![p].found = Discovery(cards),
                              ![p].cards = cards]
    /\ UNCHANGED << env, clock, calls, runState, sheet, force, browserOpen,
                    pageOpen, finalRows, updated_at, history >>

\* page.close().catch(() => {}) settles: resolved, or rejected and ignored
PageClose(p, rejected) ==
    /\ pc[p] = "pageClose"
    /\ pageOpen' = [pageOpen EXCEPT ![p] = FALSE]
    /\ pc' = [pc EXCEPT ![p] = "browserClose"]
    /\ UNCHANGED << env, clock, calls, runState, sheet, force, browserOpen,
                    outcome, finalRows, updated_at, trace, history >>

\* browser.close().catch(() => {}) settles the same way, fetchYekRialRows
\* settles and runOnce goes on
BrowserClose(p, rejected) ==
    /\ pc[p] = "browserClose"
    /\ AfterFetch(p, outcome[p], FALSE, pageOpen[p])
    /\ UNCHANGED << env, clock, calls, sheet >>

\* ------------------------------------------------------------------------
\* Google Sheets auth + write: the awaits of writeRowsToSheet
\* ------------------------------------------------------------------------
\* doc.loadInfo() resolves; getSheet picks the worksheet, ensureHeaders
\* starts
LoadInfoOk(p) ==
    /\ pc[p] = "loadInfo"
    /\ IF env.worksheet
       THEN /\ pc' = [pc EXCEPT ![p] = "loadHeaderRow"]
            /\ UNCHANGED << runState, force, browserOpen, pageOpen,
                            outcome, finalRows, updated_at, trace, history >>
       ELSE /\ Catch(p, [message |-> ErrNoWorksheet], trace[p],
                     browserOpen[p], pageOpen[p])
            /\ pub' = [pub EXCEPT !.state = "ended"]
    /\ UNCHANGED << env, clock, calls, sheet >>

\* an awaited call on the sheet rejects, other than the first
\* loadHeaderRow, whose rejection ensureHeaders ignores
SinkReject(p, e) ==
    /\ pc[p] \in {"loadInfo", "setHeaderRow", "reloadHeaderRow", "clear", "addRows"}
    /\ Catch(p, e, trace[p], browserOpen[p], pageOpen[p])
    /\ pub' = [pub EXCEPT !.state = "ended"]
    /\ UNCHANGED << env, clock, calls, sheet >>

\* ensureHeaders: the first sheet.loadHeaderRow() settles; loaded is false
\* when it rejects, which a header row without values makes it do
LoadHeaderRow(p, loaded) ==
    /\ pc[p] = "loadHeaderRow"
    /\ LET hasHeaders == loaded /\ sheet.header
       IN pc' = [pc EXCEPT ![p] = IF hasHeaders THEN "clear" ELSE "setHeaderRow"]
    /\ UNCHANGED << env, clock, calls, runState, sheet, force, browserOpen,
                    pageOpen, outcome, finalRows, updated_at, trace, history >>

\* sheet.setHeaderRow(wantedHeaders) resolves
SetHeaderRowOk(p) ==
    /\ pc[p] = "setHeaderRow"
    /\ sheet' = [sheet EXCEPT !.header = TRUE]
    /\ pc' = [pc EXCEPT ![p] = "reloadHeaderRow"]
    /\ UNCHANGED << env, clock, calls, runState, force, browserOpen,
                    pageOpen, outcome, finalRows, updated_at, trace, history >>

\* the second sheet.loadHeaderRow() resolves; sheet.clear() is called
ReloadHeaderRowOk(p) ==
    /\ pc[p] = "reloadHeaderRow"
    /\ pc' = [pc EXCEPT ![p] = "clear"]
    /\ UNCHANGED << env, clock, calls, runState, sheet, force, browserOpen,
                    pageOpen, outcome, finalRows, updated_at, trace, history >>

\* variant of the clear: the data rows stay
ClearedRows_Kept(rows) == rows

\* what sheet.clear() leaves of the data rows
ClearedRows(rows) == <<>>

\* variant of the test: sheet.addRows is called whatever the rows
AppendNeeded_Always(rows) == TRUE

\* if (finalRows.length)
AppendNeeded(rows) == Len(rows) > 0

\* variant of the continuation: sheet.addRows is not awaited, so
\* writeRowsToSheet returns when the clear has resolved
ClearOk_AppendNotAwaited(p, d) ==
    /\ pc[p] = "clear"
    /\ sheet' = [sheet EXCEPT !.rows = ClearedRows(@)]
    /\ ReadClock(d)
    /\ LET at == toISOString(now')
       IN Succeed(p, [count |-> Len(outcome[p].rows), updated_at |-> at],
                  trace[p], browserOpen[p], pageOpen[p])
    /\ pub' = [pub EXCEPT !.state = "ended", !.ok = TRUE]
    /\ UNCHANGED << env, calls >>

\* sheet.clear() resolves; the rows are stamped and, when there are any,
\* sheet.addRows is called
ClearOk(p, d) ==
    /\ pc[p] = "clear"
    /\ sheet' = [sheet EXCEPT !.rows = ClearedRows(@)]
    /\ ReadClock(d)
    /\ LET at == toISOString(now')
           stamped == Stamp(outcome[p].rows, at)
       IN IF AppendNeeded(stamped)
          THEN /\ pc' = [pc EXCEPT ![p] = "addRows"]
               /\ updated_at' = [updated_at EXCEPT ![p] = at]
               /\ finalRows' = [finalRows EXCEPT ![p] = stamped]
               /\ UNCHANGED << runState, force, browserOpen, pageOpen,
                               outcome, trace, history >>
          ELSE /\ Succeed(p, [count |-> Len(stamped), updated_at |-> at],
                          trace[p], browserOpen[p], pageOpen[p])
               /\ pub' = [pub EXCEPT !.state = "ended", !.ok = TRUE]
    /\ UNCHANGED << env, calls >>

\* sheet.addRows(finalRows) resolves; writeRowsToSheet returns and runOnce
\* records the success
AddRowsOk(p, d) ==
    /\ pc[p] = "addRows"
    /\ sheet' = [sheet EXCEPT !.rows = @ \o finalRows[p]]
    /\ ReadClock(d)
    /\ Succeed(p, [count |-> Len(finalRows[p]), updated_at |-> updated_at[p]],
               trace[p], browserOpen[p], pageOpen[p])
    /\ pub' = [pub EXCEPT !.state = "ended", !.ok = TRUE]
    /\ UNCHANGED << env, calls >>

\* ------------------------------------------------------------------------
\* Routes and scheduler
\* ------------------------------------------------------------------------
\* GET /run: force is what the query says
GetRun(p, f, d) == RunOnce(p, f, d)

\* the cron callback
CronTick(p, d) == RunOnce(p, FALSE, d)

Next ==
    \/ \E p \in Procs, d \in Elapsed : CronTick(p, d)
    \/ \E p \in Procs, f \in BOOLEAN, d \in Elapsed : GetRun(p, f, d)
    \/ \E p \in Procs : LaunchOk(p)
    \/ \E p \in Procs, m \in RenderErrors : LaunchFail(p, [message |-> m])
    \/ \E p \in Procs : NewPageOk(p)
    \/ \E p \in Procs, m \in RenderErrors : NewPageFail(p, [message |-> m])
    \/ \E p \in Procs : GotoOk(p)
    \/ \E p \in Procs : WaitForTimeoutOk(p)
    \/ \E p \in Procs, m \in RenderErrors : TryReject(p, [message |-> m])
    \/ \E p \in Procs, cards \in DistinctDocuments : Evaluate(p, cards)
    \/ \E p \in Procs, rejected \in BOOLEAN : PageClose(p, rejected)
    \/ \E p \in Procs, rejected \in BOOLEAN : BrowserClose(p, rejected)
    \/ \E p \in Procs : LoadInfoOk(p)
    \/ \E p \in Procs, m \in SinkErrors : SinkReject(p, [message |-> m])
    \/ \E p \in Procs, loaded \in BOOLEAN : LoadHeaderRow(p, loaded)
    \/ \E p \in Procs : SetHeaderRowOk(p)
    \/ \E p \in Procs : ReloadHeaderRowOk(p)
    \/ \E p \in Procs, d \in Elapsed : ClearOk(p, d)
    \/ \E p \in Procs, d \in Elapsed : AddRowsOk(p, d)

Spec == Init /\ [][Next]_vars

\* an awaited promise of invocation p settles
Settles(p) ==
    \/ LaunchOk(p)
    \/ \E m \in RenderErrors : LaunchFail(p, [message |-> m])
    \/ NewPageOk(p)
    \/ \E m \in RenderErrors : NewPageFail(p, [message |-> m])
    \/ GotoOk(p)
    \/ WaitForTimeoutOk(p)
    \/ \E m \in RenderErrors : TryReject(p, [message |-> m])
    \/ \E cards \in DistinctDocuments : Evaluate(p, cards)
    \/ \E rejected \in BOOLEAN : PageClose(p, rejected)
    \/ \E rejected \in BOOLEAN : BrowserClose(p, rejected)
    \/ LoadInfoOk(p)
    \/ \E m \in SinkErrors : SinkReject(p, [message |-> m])
    \/ \E loaded \in BOOLEAN : LoadHeaderRow(p, loaded)
    \/ SetHeaderRowOk(p)
    \/ ReloadHeaderRowOk(p)
    \/ \E d \in Elapsed : ClearOk(p, d)
    \/ \E d \in Elapsed : AddRowsOk(p, d)

\* fetchYekRialRows on its own, from the moment it awaits page.evaluate:
\* the first call of runOnce has launched the browser, opened the page and
\* loaded the document
ExtractInit ==
    /\ env = [SHEET_ID |-> TRUE, SA |-> "valid", worksheet |-> TRUE]
    /\ now = StartMs
    /\ ticks = 0
    /\ calls = 1
    /\ lastRun = NotRunYet
    /\ lastFetchMs = 0
    /\ isRunning = TRUE
    /\ sheet = [header |-> FALSE, rows |-> <<>>]
    /\ pc = [p \in Procs |-> IF p = 1 THEN "evaluate" ELSE "idle"]
    /\ force = [p \in Procs |-> FALSE]
    /\ browserOpen = [p \in Procs |-> p = 1]
    /\ pageOpen = [p \in Procs |-> p = 1]
    /\ outcome = [p \in Procs |-> NoOutcome]
    /\ finalRows = [p \in Procs |-> <<>>]
    /\ updated_at = [p \in Procs |-> Null]
    /\ trace = [p \in Procs |->
                  IF p = 1 THEN [NoTrace EXCEPT !.extract = "started"] ELSE NoTrace]
    /\ delivered = NoDelivery
    /\ busySeen = <<>>
    /\ lastAttempt = [kind |-> "none"]
    /\ pub = NoPub

\* page.evaluate resolves with the cards of one of the listed documents
ExtractNext == \E cards \in ListedDocuments : Evaluate(1, cards)

ExtractSpec == ExtractInit /\ [][ExtractNext]_vars

\* the row sets writeRowsToSheet is called with when it is called on its own
PublishBatches ==
    { <<>>,
      << [group |-> "fiat", code |-> <<"u","s","d">>, price |-> 166340] >>,
      << [group |-> "fiat", code |-> <<"u","s","d">>, price |-> 166340],
         [group |-> "crypto", code |-> <<"b","t","c">>, price |-> 9] >> }

\* writeRowsToSheet(rows) on its own, for any rows, the empty set among
\* them: the caller is the first call of runOnce at the moment
\* fetchYekRialRows is about to hand it rows
PublishInit ==
    /\ env \in Envs
    /\ now = StartMs
    /\ ticks = 0
    /\ calls = 1
    /\ lastRun = NotRunYet
    /\ lastFetchMs = 0
    /\ isRunning = TRUE
    /\ sheet \in IF GetSheetError = Null /\ env.worksheet
                 THEN InitialSheets ELSE {[header |-> FALSE, rows |-> <<>>]}
    /\ pc = [p \in Procs |-> IF p = 1 THEN "browserClose" ELSE "idle"]
    /\ force = [p \in Procs |-> FALSE]
    /\ browserOpen = [p \in Procs |-> p = 1]
    /\ pageOpen = [p \in Procs |-> FALSE]
    /\ \E rows \in PublishBatches :
          outcome = [p \in Procs |->
                       IF p = 1 THEN [kind |-> "return", message |-> "", rows |-> rows]
                       ELSE NoOutcome]
    /\ finalRows = [p \in Procs |-> <<>>]
    /\ updated_at = [p \in Procs |-> Null]
    /\ trace = [p \in Procs |->
                  IF p = 1 THEN [NoTrace EXCEPT !.extract = "started"] ELSE NoTrace]
    /\ delivered = NoDelivery
    /\ busySeen = <<>>
    /\ lastAttempt = [kind |-> "none"]
    /\ pub = NoPub

\* the awaits of writeRowsToSheet
PublishNext ==
    \/ \E rejected \in BOOLEAN : BrowserClose(1, rejected)
    \/ LoadInfoOk(1)
    \/ \E m \in SinkErrors : SinkReject(1, [message |-> m])
    \/ \E loaded \in BOOLEAN : LoadHeaderRow(1, loaded)
    \/ SetHeaderRowOk(1)
    \/ ReloadHeaderRowOk(1)
    \/ \E d \in Elapsed : ClearOk(1, d)
    \/ \E d \in Elapsed : AddRowsOk(1, d)

PublishSpec == PublishInit /\ [][PublishNext]_vars

\* the program called at most MaxLiveCalls times
LiveNext == Next /\ calls' <= MaxLiveCalls

\* the same when extraction and publication terminate: no promise the run
\* in progress awaits stays pending for ever
LiveSpec ==
    Init /\ [][LiveNext]_vars /\ \A p \in Procs : WF_vars(Settles(p))

\* ------------------------------------------------------------------------
\* Properties
\* ------------------------------------------------------------------------
\* this step is a call of runOnce
CallStep == calls' = calls + 1
\* this step is a call of runOnce that marks a run in progress as p
Started(p) == pc[p] = "idle" /\ pc'[p] = "launch"
\* the force argument of the call this step is
CallForced ==
    IF \E p \in Procs : Started(p)
    THEN \E p \in Procs : Started(p) /\ force'[p]
    ELSE delivered'.force
\* this step settles invocation p
Settled(p) == pc[p] # "idle" /\ pc'[p] = "idle"
\* this step starts no invocation and moves none
NoWork == UNCHANGED << pc, outcome, finalRows, sheet, pub >>

\* rows without their updated_at
Unstamp(rows) ==
    [i \in 1..Len(rows) |->
        [group |-> rows[i].group, code |-> rows[i].code, price |-> rows[i].price]]

\* C1: single-flight: at most one invocation is between "mark in progress"
\* and "clear in progress", whatever the interleaving of calls, and the flag
\* is set exactly while there is one.
C1_SingleFlight ==
    /\ Cardinality({p \in Procs : pc[p] # "idle"}) <= 1
    /\ isRunning <=> (\E p \in Procs : pc[p] # "idle")

\* a run is publishing and two more calls have arrived meanwhile
C1_Witness ==
    /\ \E p \in Procs : pc[p] \in SinkPcs
    /\ Len(busySeen) >= 2

\* C2: cache hit: a call runOnce(false) that finds lastRun.ok and less than
\* CACHE_TTL_MS elapsed since lastFetchMs returns lastRun, starts no
\* extraction and no publication, and leaves lastRun, lastFetchMs and
\* isRunning as they are.
C2_CacheHit ==
    [][ (/\ CallStep
         /\ ~CallForced
         /\ lastRun.ok
         /\ now' - lastFetchMs < CACHE_TTL_MS)
        => (/\ delivered'.kind = "return"
            /\ delivered'.value = lastRun
            /\ NoWork
            /\ UNCHANGED << lastRun, lastFetchMs, isRunning >>) ]_vars

\* a call was answered from the cache 30000 ms after the fetch
C2_Witness ==
    /\ delivered.path = "cache"
    /\ ~delivered.force
    /\ lastRun.ok
    /\ now - lastFetchMs = 30000

\* C3, as claimed: every forced call starts a new extraction attempt.
C3_ForcedAlwaysExtracts ==
    [][ (CallStep /\ CallForced) => \E p \in Procs : Started(p) ]_vars

\* C3, amended: every forced call that arrives while no run is in progress
\* starts a new extraction attempt, however fresh the last success is.
C3_ForcedExtractsWhenIdle ==
    [][ (CallStep /\ CallForced /\ ~isRunning) => \E p \in Procs : Started(p) ]_vars

\* a forced call started a run although the last success was fresh
C3_Witness ==
    \E p \in Procs :
        /\ pc[p] = "launch"
        /\ force[p]
        /\ lastRun.ok
        /\ now - lastFetchMs < CACHE_TTL_MS

\* C4: busy path: a call that arrives while a run is in progress returns
\* lastRun (it does not throw), starts nothing, leaves lastRun, lastFetchMs
\* and isRunning as they are, and all callers bounced by one run are handed
\* the same snapshot.
C4_BusyPath ==
    /\ [](\A i \in 1..Len(busySeen) : busySeen[i] = busySeen[1])
    /\ [][ (CallStep /\ isRunning)
           => (/\ delivered'.kind = "return"
               /\ delivered'.value = lastRun
               /\ NoWork
               /\ UNCHANGED << lastRun, lastFetchMs, isRunning >>) ]_vars

\* two callers were bounced by the run in progress, the second one forced
C4_Witness ==
    /\ isRunning
    /\ Len(busySeen) >= 2
    /\ delivered.path = "busy"
    /\ delivered.force

\* C5, as claimed: when a started invocation fails, lastRun records the
\* message of the failure.
C5_FailureRecordsMessage ==
    [][ \A p \in Procs :
          (Settled(p) /\ delivered'.kind = "throw")
          => lastRun' = [ok |-> FALSE, error |-> delivered'.value.message,
                         updated_at |-> Null, count |-> 0] ]_vars

\* C5, amended: when extraction or publication fails in a started
\* invocation, that very error is thrown to the caller, in the same step
\* lastRun has become ok:false with the message of the error, or "unknown"
\* when the error has no message, updated_at null and count 0, the flag is
\* cleared, and the invocation is over (no second attempt).
C5_FailurePropagation ==
    [][ \A p \in Procs :
          /\ (Settled(p) /\ delivered'.kind = "throw")
             => /\ lastRun' = [ok |-> FALSE,
                               error |-> IF delivered'.value.message = NoMessage
                                         THEN "unknown"
                                         ELSE delivered'.value.message,
                               updated_at |-> Null, count |-> 0]
                /\ lastFetchMs' = lastFetchMs
          /\ (pc[p] = "browserClose" /\ outcome[p].kind = "throw" /\ pc'[p] # pc[p])
             => /\ Settled(p)
                /\ delivered'.kind = "throw"
                /\ delivered'.value.message = outcome[p].message ]_vars

\* after a success, a publication failed with an error without a message
C5_Witness ==
    /\ delivered.kind = "throw"
    /\ delivered.sink
    /\ delivered.value.message = NoMessage
    /\ lastFetchMs > 0

\* the record runOnce is to leave after an attempt that ended as a
CompleteRecord(a) ==
    IF a.kind = "none" THEN NotRunYet
    ELSE IF a.kind = "return"
    THEN [ok |-> TRUE, error |-> Null, updated_at |-> a.value.updated_at,
          count |-> a.value.count]
    ELSE [ok |-> FALSE,
          error |-> IF a.value.message = NoMessage THEN "unknown"
                    ELSE a.value.message,
          updated_at |-> Null, count |-> 0]

\* C6: lastRun is "Not run yet" or the complete record of the attempt that
\* finished last; it never mixes two attempts and never shows the attempt
\* in progress, and that is what a bounced caller is handed.
C6_StatusIsLastOutcome ==
    /\ lastRun = CompleteRecord(lastAttempt)
    /\ \A i \in 1..Len(busySeen) : busySeen[i] = CompleteRecord(lastAttempt)

\* a second attempt is appending its rows, a caller was bounced, and the
\* status is that of the first attempt
C6_Witness ==
    /\ \E p \in Procs : pc[p] = "addRows"
    /\ lastAttempt.kind = "return"
    /\ Len(busySeen) >= 1

\* C7: stage ordering: an invocation calls the sheet only after its
\* extraction returned rows; an invocation whose extraction failed never
\* called it; the sheet changes only at the hands of such an invocation.
C7_StageOrdering ==
    /\ [](/\ \A p \in Procs :
               (pc[p] \in SinkPcs \/ trace[p].sink)
               => (outcome[p].kind = "return" /\ trace[p].extract = "ok")
          /\ delivered.extract = "failed"
               => (~delivered.sink /\ delivered.kind = "throw"))
    /\ [][ sheet' # sheet
           => \E p \in Procs : pc[p] \in SinkPcs /\ outcome[p].kind = "return" ]_vars

\* an invocation is appending rows after the one before failed to extract
C7_Witness ==
    /\ \E p \in Procs : pc[p] = "addRows" /\ trace[p].extract = "ok"
    /\ delivered.extract = "failed"

\* C8, as claimed: after a publish attempt, however it ended, the data rows
\* are the rows from before the attempt or the new rows.
C8_AtomicReplace ==
    pub.state = "ended"
    => (sheet.rows = pub.before \/ Unstamp(sheet.rows) = pub.rows)

\* C9: publishing the rows that were just published leaves exactly those
\* rows, once each.
C9_IdempotentPublish ==
    (pub.state = "ended" /\ pub.ok /\ pub.repeat)
    => Unstamp(sheet.rows) = pub.rows

\* two rows were published twice in succession
C9_Witness ==
    /\ pub.state = "ended"
    /\ pub.ok
    /\ pub.repeat
    /\ Len(pub.rows) = 2

\* C10: empty batch: a document without cards fails the invocation with
\* ErrNoCards, one whose candidates are all dropped by the coercion fails
\* it with ErrNoValidRows, a different message; lastRun is ok:false with
\* count 0 and the sheet was not called.
C10_EmptyBatch ==
    /\ delivered.found = "no cards"
       => /\ delivered.kind = "throw"
          /\ delivered.value.message = ErrNoCards
          /\ lastRun = [ok |-> FALSE, error |-> ErrNoCards,
                        updated_at |-> Null, count |-> 0]
          /\ ~delivered.sink
    /\ delivered.found = "none valid"
       => /\ delivered.kind = "throw"
          /\ delivered.value.message = ErrNoValidRows
          /\ lastRun = [ok |-> FALSE, error |-> ErrNoValidRows,
                        updated_at |-> Null, count |-> 0]
          /\ ~delivered.sink
    /\ ErrNoCards # ErrNoValidRows

\* after a success, a document whose only candidate has an infinite price
C10_Witness ==
    /\ delivered.found = "none valid"
    /\ lastFetchMs > 0

\* C11: the flag is cleared in all cases: an invocation that settles, with
\* a result or with an error of extraction or of publication, leaves the
\* flag false and nothing in flight, and when the awaited promises settle
\* a run in progress always comes to that.
C11_FlagCleared ==
    /\ [][ \A p \in Procs :
            Settled(p) => (~isRunning' /\ \A q \in Procs : pc'[q] = "idle") ]_vars
    /\ (isRunning ~> ~isRunning)

\* after a run that failed while publishing, a forced call has started the
\* next run
C11_Witness ==
    /\ \E p \in Procs : pc[p] = "launch" /\ force[p]
    /\ lastAttempt.kind = "throw"
    /\ delivered.path = "run"
    /\ delivered.sink

\* C12: render-session release: when fetchYekRialRows has returned or
\* thrown, the browser it launched and the page it opened are closed: none
\* is open while the invocation publishes, none when it has settled.
C12_SessionReleased ==
    /\ \A p \in Procs :
          pc[p] \in SinkPcs => (~browserOpen[p] /\ ~pageOpen[p])
    /\ ~delivered.browserOpen
    /\ ~delivered.pageOpen

\* the card has an href with a symbol and a text with a price
IsCandidate(card) == card.hrefToken # NoMatch /\ card.priceText # NoMatch
\* the first card of the document that is a candidate for the symbol
FirstFor(cards, symbol) ==
    CHOOSE k \in 1..Len(cards) :
        /\ IsCandidate(cards[k])
        /\ toUpperCase(cards[k].hrefToken) = symbol
        /\ \A j \in 1..(k - 1) :
              ~(IsCandidate(cards[j]) /\ toUpperCase(cards[j].hrefToken) = symbol)
\* invocation p has evaluated its document and the try block has gone on
Evaluated(p) == pc[p] \in {"pageClose", "browserClose"} /\ trace[p].found # "none"

\* C13: deduplication: the codes of a batch are unique; a row is built from
\* the first card of the document whose symbol is the row's after
\* uppercasing; the later cards of a symbol do not fail the batch: it is
\* returned whenever some symbol's first card has a finite price.
C13_Deduplication ==
    \A p \in Procs :
        Evaluated(p) =>
            LET cards == trace[p].cards
                rows  == outcome[p].rows
            IN /\ \A i, j \in 1..Len(rows) : rows[i].code = rows[j].code => i = j
               /\ \A i \in 1..Len(rows) :
                     LET k == FirstFor(cards, toUpperCase(rows[i].code))
                     IN num(cards[k].priceText) = <<rows[i].price>>
               /\ (\E k \in 1..Len(cards) :
                       /\ IsCandidate(cards[k])
                       /\ k = FirstFor(cards, toUpperCase(cards[k].hrefToken))
                       /\ num(cards[k].priceText) # NullNum)
                   => outcome[p].kind = "return"

\* USD at 166,340 was listed before usd at 5, and the batch is usd at 166340
C13_Witness ==
    /\ Evaluated(1)
    /\ Len(trace[1].cards) = 2
    /\ trace[1].cards[1].hrefToken = <<"U","S","D">>
    /\ trace[1].cards[2].hrefToken = <<"u","s","d">>
    /\ outcome[1].rows = << [group |-> "fiat", code |-> <<"u","s","d">>,
                             price |-> 166340] >>

\* the rank of a group and of a character in the order of the sheet
GroupRank(g) == CASE g = "fiat" -> 1 [] g = "metal" -> 2 [] g = "crypto" -> 3
LetterRank(c) == CHOOSE i \in 1..Len(LowerChars) : LowerChars[i] = c
\* code a comes before code b in the dictionary
CodeBefore(a, b) ==
    \E k \in 1..(Len(b)) :
        /\ \A j \in 1..(k - 1) : j <= Len(a) /\ a[j] = b[j]
        /\ \/ k = Len(a) + 1
           \/ k <= Len(a) /\ LetterRank(a[k]) < LetterRank(b[k])
\* the codes of rows, in order
Codes(rows) == [i \in 1..Len(rows) |-> rows[i].code]
\* the elements of a sequence
Range(seq) == { seq[i] : i \in 1..Len(seq) }

\* C14: ordering: the rows a document yields are in the order fiat, metal,
\* crypto and, within a group, in the dictionary order of their codes,
\* whatever the order of the cards (usd, xau, btc, eur gives eur, usd, xau,
\* btc), and they are the rows of the deduplicated candidates that have a
\* price, each once.
C14_Ordering ==
    \A p \in Procs :
        (Evaluated(p) /\ outcome[p].kind = "return") =>
            LET cards == trace[p].cards
                rows  == outcome[p].rows
                kept  == MapRows(EvaluateCards(cards))
            IN /\ \A i, j \in 1..Len(rows) :
                     i < j =>
                        \/ GroupRank(rows[i].group) < GroupRank(rows[j].group)
                        \/ /\ rows[i].group = rows[j].group
                           /\ CodeBefore(rows[i].code, rows[j].code)
               /\ Range(rows) = Range(kept)
               /\ Len(rows) = Len(kept)
               /\ Codes(kept) = << <<"u","s","d">>, <<"x","a","u">>,
                                   <<"b","t","c">>, <<"e","u","r">> >>
                  => Codes(rows) = << <<"e","u","r">>, <<"u","s","d">>,
                                      <<"x","a","u">>, <<"b","t","c">> >>

\* the document listed usd, xau, btc, eur and the batch is eur, usd, xau, btc
C14_Witness ==
    /\ Evaluated(1)
    /\ Codes(MapRows(EvaluateCards(trace[1].cards)))
         = << <<"u","s","d">>, <<"x","a","u">>, <<"b","t","c">>, <<"e","u","r">> >>
    /\ Codes(outcome[1].rows)
         = << <<"e","u","r">>, <<"u","s","d">>, <<"x","a","u">>, <<"b","t","c">> >>

\* C15: shared publish timestamp: the rows handed to sheet.addRows all carry
\* the updated_at of this call of writeRowsToSheet, and when the run
\* succeeds that value is on every data row of the sheet, is what
\* writeRowsToSheet returns and is the updated_at of lastRun.
C15_SharedTimestamp ==
    /\ [](\A p \in Procs :
            pc[p] = "addRows"
            => /\ updated_at[p] # Null
               /\ \A i \in 1..Len(finalRows[p]) :
                     finalRows[p][i].updated_at = updated_at[p])
    /\ [][ \A p \in Procs :
            (Settled(p) /\ delivered'.kind = "return")
            => /\ lastRun'.ok
               /\ lastRun'.updated_at = updated_at[p]
               /\ delivered'.value.updated_at = updated_at[p]
               /\ Len(sheet'.rows) = Len(outcome[p].rows)
               /\ \A i \in 1..Len(sheet'.rows) :
                     sheet'.rows[i].updated_at = updated_at[p] ]_vars

\* two rows were published after the clock had advanced, and both carry the
\* updated_at of lastRun
C15_Witness ==
    /\ ~isRunning
    /\ lastRun.ok
    /\ lastRun.updated_at # toISOString(StartMs)
    /\ Len(sheet.rows) = 2
    /\ sheet.rows[1].updated_at = lastRun.updated_at
    /\ sheet.rows[2].updated_at = lastRun.updated_at

\* C16: empty publish: writeRowsToSheet called with no rows has the header
\* in place when it clears, never calls sheet.addRows, and when the clear
\* resolves it returns count 0 with the sheet holding its header and no
\* data rows.
C16_EmptyPublish ==
    /\ [](\A p \in Procs :
            /\ pc[p] \in {"clear", "addRows"} => sheet.header
            /\ (pc[p] = "addRows") => outcome[p].rows # <<>>)
    /\ [][ \A p \in Procs :
            (pc[p] = "clear" /\ outcome[p].rows = <<>> /\ pc'[p] # pc[p])
            => /\ Settled(p)
               /\ \/ delivered'.kind = "throw" /\ sheet' = sheet
                  \/ /\ delivered'.kind = "return"
                     /\ lastAttempt'.kind = "return"
                     /\ lastAttempt'.value.count = 0
                     /\ sheet'.header
                     /\ sheet'.rows = <<>>
                     /\ pub'.ok ]_vars

\* no rows were published to a sheet that held a row: the sheet is empty
\* and the count is 0
C16_Witness ==
    /\ pub.state = "ended"
    /\ pub.ok
    /\ pub.rows = <<>>
    /\ pub.before # <<>>
    /\ sheet.rows = <<>>
    /\ sheet.header
    /\ lastAttempt.kind = "return"
    /\ lastAttempt.value.count = 0

\* C17: failures are never cached: lastFetchMs changes only in the step
\* that ends a successful run, where it becomes the clock's reading, and an
\* unforced call that finds no run in progress and the last attempt failed
\* starts a run, however recent the last success.
C17_FailuresNotCached ==
    [][ /\ lastFetchMs' # lastFetchMs
           => /\ \E p \in Procs : Settled(p)
              /\ delivered'.path = "run"
              /\ delivered'.kind = "return"
              /\ lastFetchMs' = now'
        /\ (CallStep /\ ~CallForced /\ ~isRunning /\ lastAttempt.kind = "throw")
           => \E p \in Procs : Started(p) ]_vars

\* an unforced call started a run within the window of the last success,
\* because the attempt after it failed
C17_Witness ==
    /\ \E p \in Procs : pc[p] = "launch" /\ ~force[p]
    /\ lastAttempt.kind = "throw"
    /\ lastFetchMs > 0
    /\ now - lastFetchMs < CACHE_TTL_MS

\* C18: lastRun is well formed: ok with error null, an updated_at and a
\* count of at least 1, or not ok with an error, updated_at null and count 0.
C18_WellFormedStatus ==
    IF lastRun.ok
    THEN lastRun.error = Null /\ lastRun.updated_at # Null /\ lastRun.count >= 1
    ELSE lastRun.error # Null /\ lastRun.updated_at = Null /\ lastRun.count = 0

\* a failure is recorded after a success
C18_Witness ==
    /\ ~lastRun.ok
    /\ lastRun.error # "Not run yet"
    /\ lastAttempt.kind = "throw"
    /\ lastFetchMs > 0

\* C19: status/sink agreement: while no run is in progress and lastRun is
\* ok, the data rows of the sheet are the rows the latest run extracted and
\* lastRun.count is their number; the step that records a success is the
\* one in which sheet.addRows resolves, after the clear.
C19_StatusSinkAgreement ==
    /\ []((~isRunning /\ lastRun.ok)
          => /\ pub.state = "ended"
             /\ pub.ok
             /\ Unstamp(sheet.rows) = pub.rows
             /\ lastRun.count = Len(sheet.rows))
    /\ [][ \A p \in Procs :
            (Settled(p) /\ delivered'.kind = "return")
            => /\ pc[p] = "addRows"
               /\ pub.rows = outcome[p].rows
               /\ Unstamp(finalRows[p]) = outcome[p].rows
               /\ sheet.rows = <<>>
               /\ sheet'.rows = finalRows[p] ]_vars

\* a batch of two rows has replaced a batch of one and the status counts two
C19_Witness ==
    /\ ~isRunning
    /\ lastRun.ok
    /\ lastRun.count = 2
    /\ Len(pub.before) = 1
    /\ pub.before[1].code = <<"u","s","d">>
    /\ Len(sheet.rows) = 2

=============================================================================
